---------------------------- MODULE Spec2Model ----------------------------
(***************************************************************************)
(* Rottorrent: the peer message codec (src/src/message.rs) and the piece   *)
(* download sequence of Command::DownloadPiece (src/src/main.rs).          *)
(*                                                                         *)
(* Two specifications share the module:                                    *)
(*   SpecFramer    MessageFramer::encode / MessageFramer::decode working   *)
(*                 on byte buffers;                                        *)
(*   SpecDownload  the message sequence after the handshake: bitfield,     *)
(*                 interested, unchoke, request/piece rounds, size check   *)
(*                 and SHA-1 check.                                        *)
(* Byte buffers are sequences of integers 0..255.  A Rust panic (assert!,  *)
(* expect, slice index out of range) is the outcome "Panic", distinct from *)
(* a returned Err.                                                         *)
(***************************************************************************)
EXTENDS Integers, Sequences, FiniteSets, TLC

VARIABLES
    \* ---- codec harness (SpecFramer) ----
    pending,     \* messages the caller still has to pass to encode
    viaEncode,   \* TRUE when the bytes on the wire come from encode
    sentItems,   \* messages already encoded onto the wire, in order
    wire,        \* bytes written to the transport, not yet read
    wireLog,     \* every byte ever written to the transport
    src,         \* the decoder's buffer (BytesMut of FramedRead)
    last,        \* the last decode call: buffer before, result, buffer after
    msgs,        \* messages returned by decode so far
    fresh,       \* a read has delivered bytes since the last decode call
    bytewise,    \* so far every read delivered one byte and was followed
                 \* by a decode call before the next read
    encLast,     \* the last encode call: item, result, dst before and after
    \* ---- piece download (SpecDownload) ----
    pc,          \* position in Command::DownloadPiece
    result,      \* "Running", "Ok", "Err" or "Panic", with the error kind
    torrent,     \* [length, piece_length, npieces, piece, piece_hash]
    rx,          \* read buffer of the Framed transport (bytes from the peer)
    closed,      \* the peer closed its side of the connection
    peerLog,     \* frames the peer has written, in order
    rxMsgs,      \* messages the engine got from peer.next(), in order
    tx,          \* frames the engine has written to the peer, in order
    piece_size,  \* main.rs piece_size
    nblocks,     \* main.rs nblocks
    block_i,     \* loop variable of the request loop
    blocks,      \* the assembly buffer
    appended,    \* for each append to blocks: the request and the Piece header
    output,      \* bytes written to the output path
    \* ---- handshake (SpecHandshake) ----
    hsPc,        \* "New", "Write", "Read", "Validate", "Completed", "Failed"
    hsResult,    \* outcome of the handshake, as result
    hsLocal,     \* [info_hash, peer_id] given to HandShake::new
    hsBuf,       \* the bytes of the HandShake value (handshake_bytes)
    hsWritten,   \* bytes of the record written to the transport so far
    hsGot,       \* bytes read back into the record so far
    hsReply,     \* bytes the peer sends before it stops or closes
    hsExposed,   \* the peer_id printed, << >> while none is
    \* ---- decoder fed read by read, with and without heartbeats ----
    ka,          \* [all, plan, src, msgs, end, refSrc, refMsgs, refEnd]
    \* ---- the pieces string (SpecHashes) ----
    hashes,      \* [pc, input, res, decoded, output]
    \* ---- one decode call, activation by activation (SpecDecodeSteps) ----
    dec          \* [buf, src, steps, res]

framerVars == <<pending, viaEncode, sentItems, wire, wireLog, src, last, msgs,
                fresh, bytewise, encLast>>
dlVars == <<pc, result, torrent, rx, closed, peerLog, rxMsgs, tx,
            piece_size, nblocks, block_i, blocks, appended, output>>
hsVars == <<hsPc, hsResult, hsLocal, hsBuf, hsWritten, hsGot, hsReply, hsExposed>>
toolVars == <<ka, hashes, dec>>
auxVars == <<hsVars, toolVars>>
vars == <<framerVars, dlVars, auxVars>>

-----------------------------------------------------------------------------
(* Program constants and bounds *)

MAX == 65536
BLOCK_MAX == 16384

MaxFrames == 2        \* frames (or messages) per codec run
MaxPeerFrames == 4    \* frames the peer writes in one download
MaxRxBacklog == 5     \* the peer writes while at most this many bytes are unread

-----------------------------------------------------------------------------
(* Bytes and integers *)

from_be_bytes(b) == b[1] * 16777216 + b[2] * 65536 + b[3] * 256 + b[4]

to_be_bytes(n) ==
    << (n \div 16777216) % 256, (n \div 65536) % 256, (n \div 256) % 256, n % 256 >>

to_le_bytes(n) ==
    << n % 256, (n \div 256) % 256, (n \div 65536) % 256, (n \div 16777216) % 256 >>

\* BytesMut::advance(n): drop the first n bytes
advance(buf, n) == SubSeq(buf, n + 1, Len(buf))

\* MessageTag::from_repr succeeds on 0..8
MessageTag == 0 .. 8
Choke == 0
Unchoke == 1
Interested == 2
Have == 4
Bitfield == 5
Request == 6
Piece == 7

NoMsg == [length |-> 0, tag |-> 0, payload |-> << >>]

-----------------------------------------------------------------------------
(* MessageFramer::decode *)

\* a decode that looks at the ceiling only once the tag byte is there
RECURSIVE decode_late_ceiling(_)
decode_late_ceiling(buf) ==
    IF Len(buf) < 4
    THEN [res |-> "None", msg |-> NoMsg, src |-> buf]
    ELSE LET len == from_be_bytes(SubSeq(buf, 1, 4)) IN
         IF len = 0
         THEN decode_late_ceiling(advance(buf, 4))
         ELSE IF Len(buf) < 5
         THEN [res |-> "None", msg |-> NoMsg, src |-> buf]
         ELSE IF len > MAX
         THEN [res |-> "Err", msg |-> NoMsg, src |-> buf]
         ELSE IF Len(buf) < 4 + len
         THEN [res |-> "None", msg |-> NoMsg, src |-> buf]
         ELSE IF Len(buf) > 5 /\ 5 > 4 + len - 1
         THEN [res |-> "Panic", msg |-> NoMsg, src |-> buf]
         ELSE IF buf[5] \notin MessageTag
         THEN [res |-> "Panic", msg |-> NoMsg, src |-> advance(buf, 4 + len)]
         ELSE [res |-> "Some",
               msg |-> [length |-> len, tag |-> buf[5],
                        payload |-> IF Len(buf) > 5
                                    THEN SubSeq(buf, 6, 4 + len - 1)
                                    ELSE << >>],
               src |-> advance(buf, 4 + len)]

RECURSIVE decode(_)
decode(buf) ==
    IF Len(buf) < 4
    THEN [res |-> "None", msg |-> NoMsg, src |-> buf]
    ELSE LET len == from_be_bytes(SubSeq(buf, 1, 4)) IN
         IF len = 0
         THEN decode(advance(buf, 4))
         ELSE IF len > MAX
         THEN [res |-> "Err", msg |-> NoMsg, src |-> buf]
         ELSE IF Len(buf) < 5
         THEN [res |-> "None", msg |-> NoMsg, src |-> buf]
         ELSE IF Len(buf) < 4 + len
         THEN [res |-> "None", msg |-> NoMsg, src |-> buf]
         ELSE LET tag == buf[5] IN
              \* src[5..4 + len_u - 1]: a range whose start exceeds its end panics
              IF Len(buf) > 5 /\ 5 > 4 + len - 1
              THEN [res |-> "Panic", msg |-> NoMsg, src |-> buf]
              ELSE LET data == IF Len(buf) > 5
                               THEN SubSeq(buf, 6, 4 + len - 1)
                               ELSE << >>
                   IN  IF tag \notin MessageTag
                       \* from_repr(tag) ... .expect("Unknown message tag")
                       THEN [res |-> "Panic", msg |-> NoMsg,
                             src |-> advance(buf, 4 + len)]
                       ELSE [res |-> "Some",
                             msg |-> [length |-> len, tag |-> tag, payload |-> data],
                             src |-> advance(buf, 4 + len)]

\* an encode that reserves the tag's byte out of the payload: the frame
\* never outgrows the ceiling, and the last payload byte is not written
encode_truncating(item, dst) ==
    LET len == Len(item.payload) IN
    IF len > MAX
    THEN [res |-> "Err", dst |-> dst]
    ELSE [res |-> "Ok",
          dst |-> dst \o to_le_bytes(len) \o << item.tag >>
                      \o SubSeq(item.payload, 1, len - 1)]

(* MessageFramer::encode *)
encode(item, dst) ==
    LET len == Len(item.payload) + 1 IN
    IF len > MAX
    THEN [res |-> "Err", dst |-> dst]
    ELSE [res |-> "Ok",
          dst |-> dst \o to_le_bytes(len) \o << item.tag >> \o item.payload]

-----------------------------------------------------------------------------
(* Inputs of the codec harness *)

BoundedSeq(S, n) == UNION { [1 .. k -> S] : k \in 0 .. n }

RECURSIVE Flatten(_)
Flatten(ss) == IF ss = << >> THEN << >> ELSE Head(ss) \o Flatten(Tail(ss))

\* A frame as a protocol-following peer writes it: big-endian length, tag, payload
WireFrame(len, tag, payload) == to_be_bytes(len) \o << tag >> \o payload

KeepAlive == to_be_bytes(0)

CodecPayloads == { << >>, << 170 >>, << 170, 85 >> }
CodecTags == { Unchoke, Piece }

CodecMessages ==
    { [length |-> Len(p) + 1, tag |-> t, payload |-> p] :
        t \in CodecTags, p \in CodecPayloads }

\* valid frames, a keep-alive, a header over the ceiling, an unknown tag
PeerFrames ==
    { WireFrame(m.length, m.tag, m.payload) : m \in CodecMessages }
        \cup { KeepAlive, to_be_bytes(MAX + 1), WireFrame(1, 9, << >>) }

\* no stream is being fed to the decoder and no pieces string is being read
NoFeed == [all |-> << >>, plan |-> << >>, src |-> << >>, msgs |-> << >>,
           end |-> "Init", refSrc |-> << >>, refMsgs |-> << >>,
           refEnd |-> "Init"]

NoHashes == [pc |-> "Idle", input |-> << >>, res |-> "Init",
             decoded |-> << >>, output |-> << >>]

\* no decode call is being followed
NoDecode == [buf |-> << >>, src |-> << >>, steps |-> 0, res |-> "Init"]

ToolsIdle ==
    /\ ka = NoFeed
    /\ hashes = NoHashes
    /\ dec = NoDecode

\* the handshake variables while another part is exercised
HandshakeIdle ==
    /\ hsPc = "Idle"
    /\ hsResult = [state |-> "Running", kind |-> "None"]
    /\ hsLocal = [info_hash |-> << >>, peer_id |-> << >>]
    /\ hsBuf = << >>
    /\ hsWritten = 0
    /\ hsGot = 0
    /\ hsReply = << >>
    /\ hsExposed = << >>

NoEncode == [item |-> NoMsg, res |-> "Init", before |-> << >>, after |-> << >>]

NoCall == [before |-> << >>, off |-> 0, res |-> "Init", msg |-> NoMsg, after |-> << >>]

\* the download variables while only the codec is exercised
DownloadIdle ==
    /\ pc = "Idle"
    /\ result = [state |-> "Running", kind |-> "None"]
    /\ torrent = [length |-> 1, piece_length |-> 1, npieces |-> 1,
                  piece |-> 0, piece_hash |-> 0]
    /\ rx = << >>
    /\ closed = FALSE
    /\ peerLog = << >>
    /\ rxMsgs = << >>
    /\ tx = << >>
    /\ piece_size = 0
    /\ nblocks = 0
    /\ block_i = 0
    /\ blocks = << >>
    /\ appended = << >>
    /\ output = << >>

InitFramer ==
    /\ viaEncode \in BOOLEAN
    /\ pending \in IF viaEncode THEN BoundedSeq(CodecMessages, MaxFrames) ELSE { << >> }
    /\ wire \in IF viaEncode
                THEN { << >> }
                ELSE { Flatten(s) : s \in BoundedSeq(PeerFrames, MaxFrames) }
    /\ wireLog = wire
    /\ sentItems = << >>
    /\ src = << >>
    /\ last = NoCall
    /\ msgs = << >>
    /\ fresh = FALSE
    /\ bytewise = TRUE
    /\ encLast = NoEncode
    /\ DownloadIdle
    /\ HandshakeIdle
    /\ ToolsIdle

-----------------------------------------------------------------------------
(* Codec harness: the caller encodes, the transport delivers, the caller decodes *)

encode_call ==
    /\ pending # << >>
    /\ last.res # "Panic"
    /\ LET r == encode(Head(pending), wire) IN
         /\ wire' = r.dst
         /\ wireLog' = wireLog \o SubSeq(r.dst, Len(wire) + 1, Len(r.dst))
         /\ sentItems' = IF r.res = "Ok" THEN Append(sentItems, Head(pending))
                                         ELSE sentItems
         /\ encLast' = [item |-> Head(pending), res |-> r.res,
                        before |-> wire, after |-> r.dst]
    /\ pending' = Tail(pending)
    /\ UNCHANGED <<viaEncode, src, last, msgs, fresh, bytewise, dlVars,
                   auxVars>>

\* the transport hands the next n bytes to the decoder's buffer
poll_read(n) ==
    /\ n \in 1 .. Len(wire)
    /\ last.res # "Panic"
    /\ src' = src \o SubSeq(wire, 1, n)
    /\ wire' = advance(wire, n)
    /\ fresh' = TRUE
    /\ bytewise' = (bytewise /\ n = 1 /\ ~fresh)
    /\ UNCHANGED <<pending, viaEncode, sentItems, wireLog, last, msgs,
                   encLast, dlVars, auxVars>>

decode_call ==
    /\ last.res # "Panic"
    /\ LET r == decode(src) IN
         /\ last' = [before |-> src,
                     off |-> Len(wireLog) - Len(wire) - Len(src),
                     res |-> r.res, msg |-> r.msg, after |-> r.src]
         /\ src' = r.src
         /\ msgs' = IF r.res = "Some" THEN Append(msgs, r.msg) ELSE msgs
    /\ fresh' = FALSE
    /\ UNCHANGED <<pending, viaEncode, sentItems, wire, wireLog, bytewise,
                   encLast, dlVars, auxVars>>

NextFramer ==
    \/ encode_call
    \/ \E n \in { 1, Len(wire) } : poll_read(n)
    \/ decode_call

SpecFramer == InitFramer /\ [][NextFramer]_vars

-----------------------------------------------------------------------------
(* Command::DownloadPiece after the handshake: inputs *)

div_ceil(a, b) == (a + b - 1) \div b

\* stand-in for the SHA-1 digest of a byte string (sha1 crate): a small
\* checksum, so that equal and different digests both occur
RECURSIVE SumRange(_, _, _)
SumRange(b, lo, hi) ==
    IF lo > hi THEN 0
    ELSE IF lo = hi THEN b[lo]
    ELSE SumRange(b, lo, (lo + hi) \div 2) + SumRange(b, (lo + hi) \div 2 + 1, hi)

ByteSum(b) == SumRange(b, 1, Len(b))

Sha1(b) == (ByteSum(b) + 31 * Len(b)) % 251

Fill(n, g) == [ i \in 1 .. n |-> g ]

\* bytes a read past the end of the payload allocation can return
GarbageBytes == { 0, 255 }

\* (total length, piece length) of the torrents tried
TorrentShapes ==
    { <<17, 9>>, <<18, 9>>, <<49153, 32768>>, <<1048576, 262144>> }

PieceHashes == { Sha1(<< >>), Sha1(Fill(8, 0)) }

Torrents ==
    { [length |-> sh[1], piece_length |-> sh[2],
       npieces |-> div_ceil(sh[1], sh[2]),
       piece |-> p, piece_hash |-> h] :
        sh \in TorrentShapes, p \in 0 .. 4, h \in PieceHashes }

FramerIdle ==
    /\ pending = << >>
    /\ viaEncode = FALSE
    /\ sentItems = << >>
    /\ wire = << >>
    /\ wireLog = << >>
    /\ src = << >>
    /\ last = NoCall
    /\ msgs = << >>
    /\ fresh = FALSE
    /\ bytewise = TRUE
    /\ encLast = NoEncode

InitDownload ==
    /\ torrent \in { t \in Torrents : t.piece <= t.npieces }
    /\ pc = "WaitBitfield"
    /\ result = [state |-> "Running", kind |-> "None"]
    /\ rx = << >>
    /\ closed = FALSE
    /\ peerLog = << >>
    /\ rxMsgs = << >>
    /\ tx = << >>
    /\ piece_size = 0
    /\ nblocks = 0
    /\ block_i = 0
    /\ blocks = << >>
    /\ appended = << >>
    /\ output = << >>
    /\ FramerIdle
    /\ HandshakeIdle
    /\ ToolsIdle

-----------------------------------------------------------------------------
(* The peer *)

\* Request::new(index, begin, length).as_bytes_mut(): three big-endian u32
Request_new(index, begin, length) ==
    to_be_bytes(index) \o to_be_bytes(begin) \o to_be_bytes(length)

TxTag(f) == f[5]
TxRequest(f) ==
    [index |-> from_be_bytes(SubSeq(f, 6, 9)),
     begin |-> from_be_bytes(SubSeq(f, 10, 13)),
     length |-> from_be_bytes(SubSeq(f, 14, 17))]

Requests == SelectSeq(tx, LAMBDA f : TxTag(f) = Request)

\* the request the peer would be answering: the last one written, if any
LastRequest ==
    IF Requests = << >>
    THEN [index |-> torrent.piece, begin |-> 0, length |-> 0]
    ELSE TxRequest(Requests[Len(Requests)])

PieceFrame(index, begin, block) ==
    WireFrame(9 + Len(block), Piece,
              to_be_bytes(index) \o to_be_bytes(begin) \o block)

\* what the peer may write next
DlPeerFrames ==
    { WireFrame(2, Bitfield, << 255 >>),
      WireFrame(1, Unchoke, << >>),
      WireFrame(2, Unchoke, << 0 >>),
      WireFrame(1, Choke, << >>),
      KeepAlive,
      PieceFrame(LastRequest.index, LastRequest.begin, << 1 >>),
      PieceFrame(LastRequest.index, LastRequest.begin, << 1, 2 >>),
      PieceFrame(LastRequest.index + 1, LastRequest.begin, << 1 >>),
      PieceFrame(LastRequest.index, LastRequest.begin + BLOCK_MAX, << 1 >>) }

peer_write(f) ==
    /\ result.state = "Running"
    /\ ~closed
    /\ Len(peerLog) < MaxPeerFrames
    /\ Len(rx) <= MaxRxBacklog
    /\ rx' = rx \o f
    /\ peerLog' = Append(peerLog, f)
    /\ UNCHANGED <<pc, result, torrent, closed, rxMsgs, tx, piece_size, nblocks,
                   block_i, blocks, appended, output, framerVars, auxVars>>

peer_close ==
    /\ result.state = "Running"
    /\ ~closed
    /\ closed' = TRUE
    /\ UNCHANGED <<pc, result, torrent, rx, peerLog, rxMsgs, tx, piece_size,
                   nblocks, block_i, blocks, appended, output, framerVars, auxVars>>

-----------------------------------------------------------------------------
(* The engine *)

Panic(kind) == [state |-> "Panic", kind |-> kind]
Err(kind) == [state |-> "Err", kind |-> kind]

\* Framed::next(): decode what is buffered; at end of stream decode_eof
\* reports leftover bytes as an error and an empty buffer as the end
poll_next(buf, eof) ==
    LET r == decode(buf) IN
    IF r.res = "None"
    THEN IF eof
         THEN [res |-> IF r.src = << >> THEN "Eof" ELSE "Err",
               msg |-> NoMsg, src |-> r.src]
         ELSE [res |-> "Pending", msg |-> NoMsg, src |-> r.src]
    ELSE r

\* .expect(..) on the item of the stream: no item, an Err item, or a panic
\* inside decode all abort the program
ExpectFailure(r) ==
    CASE r.res = "Eof" -> Panic("IoError")
      [] r.res = "Err" -> Panic("DecodeError")
      [] OTHER -> Panic("DecodePanic")

\* the item peer.next() yields on what is buffered now
NextItem == poll_next(rx, closed)

\* peer.next().await followed by the assertions on the message; verdict is
\* "ok" or the kind of the failed assertion on NextItem.msg
Await(verdict, nextpc) ==
    LET r == NextItem IN
    /\ r.res = "Pending" => r.src # rx
    /\ rx' = r.src
    /\ rxMsgs' = IF r.res = "Some" THEN Append(rxMsgs, r.msg) ELSE rxMsgs
    /\ IF r.res = "Pending"
       THEN UNCHANGED <<pc, result>>
       ELSE IF r.res = "Some"
       THEN IF verdict = "ok"
            THEN pc' = nextpc /\ result' = result
            ELSE pc' = pc /\ result' = Panic(verdict)
       ELSE pc' = pc /\ result' = ExpectFailure(r)

\* peer.send(item).await.context(..)?
\* a write to a connection the peer has closed may fail
Send(item, nextpc) ==
    LET r == encode(item, << >>) IN
    \/ /\ r.res = "Ok"
       /\ tx' = Append(tx, r.dst)
       /\ pc' = nextpc
       /\ result' = result
    \/ /\ r.res = "Err" \/ closed
       /\ tx' = tx
       /\ pc' = pc
       /\ result' = Err("IoError")

BitfieldVerdict(m) == IF m.tag = Bitfield THEN "ok" ELSE "ProtocolError"

UnchokeVerdict(m) ==
    IF m.tag = Unchoke /\ m.payload = << >> THEN "ok" ELSE "ProtocolError"

PieceVerdict(m) ==
    IF m.tag = Piece /\ m.payload # << >> THEN "ok" ELSE "ProtocolError"

\* #1: wait for the bitfield
recv_bitfield ==
    /\ pc = "WaitBitfield"
    /\ result.state = "Running"
    /\ Await(BitfieldVerdict(NextItem.msg), "SendInterested")
    /\ UNCHANGED <<torrent, closed, peerLog, tx, piece_size, nblocks, block_i,
                   blocks, appended, output, framerVars, auxVars>>

\* #2: send Interested
send_interested ==
    /\ pc = "SendInterested"
    /\ result.state = "Running"
    /\ Send([length |-> 1, tag |-> Interested, payload |-> << >>], "WaitUnchoke")
    /\ UNCHANGED <<torrent, rx, closed, peerLog, rxMsgs, piece_size, nblocks,
                   block_i, blocks, appended, output, framerVars, auxVars>>

\* #3: wait for the unchoke
recv_unchoke ==
    /\ pc = "WaitUnchoke"
    /\ result.state = "Running"
    /\ Await(UnchokeVerdict(NextItem.msg), "ComputeSizes")
    /\ UNCHANGED <<torrent, closed, peerLog, tx, piece_size, nblocks, block_i,
                   blocks, appended, output, framerVars, auxVars>>

\* Hashes::at: bounds-checked lookup of the piece's digest
piece_hash_at(t, index) ==
    IF index < t.npieces THEN [some |-> TRUE, hash |-> t.piece_hash]
                         ELSE [some |-> FALSE, hash |-> 0]

piece_byte_length(t) ==
    IF t.piece = t.npieces - 1
    THEN t.length % t.piece_length
    ELSE t.piece_length

\* #4: piece hash, piece size, number of blocks, the empty assembly buffer
compute_sizes ==
    /\ pc = "ComputeSizes"
    /\ result.state = "Running"
    /\ IF piece_hash_at(torrent, torrent.piece).some
       THEN /\ piece_size' = piece_byte_length(torrent)
            /\ nblocks' = div_ceil(piece_byte_length(torrent), BLOCK_MAX)
            /\ pc' = IF div_ceil(piece_byte_length(torrent), BLOCK_MAX) = 0
                     THEN "Verify" ELSE "SendRequest"
            /\ result' = result
       ELSE /\ UNCHANGED <<piece_size, nblocks, pc>>
            /\ result' = Err("PieceIndex")
    /\ block_i' = 0
    /\ blocks' = << >>
    /\ UNCHANGED <<torrent, rx, closed, peerLog, rxMsgs, tx, appended, output,
                   framerVars, auxVars>>

block_size(i) ==
    IF i = nblocks - 1 THEN piece_size % BLOCK_MAX ELSE BLOCK_MAX

\* a loop that sends the next Request without waiting for the Piece
AfterRequest_pipelined ==
    IF Len(Requests) < 1 /\ nblocks > 1 THEN "SendRequest" ELSE "WaitPiece"

\* after the send the loop body waits on peer.next()
AfterRequest == "WaitPiece"

\* send the Request for block block_i; the `as u32` casts leave the values
\* as they are: every piece tried here is far below 2^32 bytes
send_request ==
    /\ pc = "SendRequest"
    /\ result.state = "Running"
    /\ Send([length |-> 13, tag |-> Request,
             payload |-> Request_new(torrent.piece,
                                     block_i * BLOCK_MAX,
                                     block_size(block_i))],
            AfterRequest)
    /\ UNCHANGED <<torrent, rx, closed, peerLog, rxMsgs, piece_size, nblocks,
                   block_i, blocks, appended, output, framerVars, auxVars>>

\* Piece::index() / Piece::begin() of a payload with a full header
Piece_index(payload) == from_be_bytes(SubSeq(payload, 1, 4))
Piece_begin(payload) == from_be_bytes(SubSeq(payload, 5, 8))

\* Piece::block() of the payload cast to Piece: the cast keeps the payload's
\* length n as the length of the block field, which starts at offset 8, so
\* the slice covers payload[8..n] and then min(n, 8) bytes past the end of
\* the payload (an out-of-bounds read: any bytes g)
Piece_block(payload, g) ==
    LET n == Len(payload) IN
    SubSeq(payload, 9, n) \o Fill(IF n < 8 THEN n ELSE 8, g)

\* wait for the Piece message and append its block
recv_piece ==
    /\ pc = "WaitPiece"
    /\ result.state = "Running"
    /\ Await(PieceVerdict(NextItem.msg),
             IF block_i + 1 < nblocks THEN "SendRequest" ELSE "Verify")
    /\ IF pc' # pc
       THEN \E g \in GarbageBytes :
              LET m == rxMsgs'[Len(rxMsgs')] IN
              /\ blocks' = blocks \o Piece_block(m.payload, g)
              /\ appended' = Append(appended,
                     [request |-> LastRequest,
                      index |-> IF Len(m.payload) >= 8
                                THEN Piece_index(m.payload) ELSE -1,
                      begin |-> IF Len(m.payload) >= 8
                                THEN Piece_begin(m.payload) ELSE -1,
                      offset |-> Len(blocks),
                      len |-> Len(Piece_block(m.payload, g))])
              /\ block_i' = block_i + 1
       ELSE UNCHANGED <<blocks, appended, block_i>>
    /\ UNCHANGED <<torrent, closed, peerLog, tx, piece_size, nblocks, output,
                   framerVars, auxVars>>

\* assert_eq!(blocks.len(), piece_size); assert_eq!(&hash, piece_hash); Ok(())
verify ==
    /\ pc = "Verify"
    /\ result.state = "Running"
    /\ result' = IF Len(blocks) # piece_size THEN Panic("SizeMismatch")
                 ELSE IF Sha1(blocks) # piece_hash_at(torrent, torrent.piece).hash
                 THEN Panic("HashVerificationFailure")
                 ELSE [state |-> "Ok", kind |-> "None"]
    /\ UNCHANGED <<pc, torrent, rx, closed, peerLog, rxMsgs, tx, piece_size,
                   nblocks, block_i, blocks, appended, output, framerVars, auxVars>>

NextDownload ==
    \/ \E f \in DlPeerFrames : peer_write(f)
    \/ peer_close
    \/ recv_bitfield
    \/ send_interested
    \/ recv_unchoke
    \/ compute_sizes
    \/ send_request
    \/ recv_piece
    \/ verify

SpecDownload == InitDownload /\ [][NextDownload]_vars

-----------------------------------------------------------------------------
(* The handshake of Command::Handshake and Command::DownloadPiece *)

Running == [state |-> "Running", kind |-> "None"]
Ok == [state |-> "Ok", kind |-> "None"]

\* b"BitTorrent protocol"
BitTorrentProtocol ==
    << 66, 105, 116, 84, 111, 114, 114, 101, 110, 116, 32,
       112, 114, 111, 116, 111, 99, 111, 108 >>

\* b"00112233445566778899"
DefaultPeerId ==
    << 48, 48, 49, 49, 50, 50, 51, 51, 52, 52,
       53, 53, 54, 54, 55, 55, 56, 56, 57, 57 >>

\* HandShake::new
HandShake_new(hash, peer_id) ==
    [len |-> 19,
     bittorrent |-> BitTorrentProtocol,
     reserved |-> Fill(8, 0),
     sha_hash |-> hash,
     peer_id |-> peer_id]

\* a layout with sha_hash placed before reserved
as_bytes_mut_reordered(h) ==
    << h.len >> \o h.bittorrent \o h.sha_hash \o h.reserved \o h.peer_id

\* HandShake::as_bytes_mut: the #[repr(C)] value seen as size_of::<Self>()
\* bytes, fields in declaration order, all of alignment 1
as_bytes_mut(h) ==
    << h.len >> \o h.bittorrent \o h.reserved \o h.sha_hash \o h.peer_id

\* the fields of the value whose bytes are buf
hs_len(buf) == buf[1]
hs_bittorrent(buf) == SubSeq(buf, 2, 20)
hs_sha_hash(buf) == SubSeq(buf, 29, 48)
hs_peer_id(buf) == SubSeq(buf, 49, 68)

HandshakeSize == Len(as_bytes_mut(HandShake_new(Fill(20, 0), DefaultPeerId)))

InfoHashes == { Fill(20, 0), Fill(20, 171) }
PeerIds == { DefaultPeerId, Fill(20, 1) }

\* what the peer may answer to a handshake carrying hash: a well-formed
\* record with the same hash, one with another length byte, another
\* protocol name, another info_hash, reserved bits set, and replies cut
\* short by the peer closing the connection
PeerReplies(hash) ==
    LET good == HandShake_new(hash, Fill(20, 80)) IN
    { as_bytes_mut(good),
      as_bytes_mut([good EXCEPT !.len = 20]),
      as_bytes_mut([good EXCEPT !.bittorrent[19] = 76]),
      as_bytes_mut([good EXCEPT !.sha_hash = Fill(20, 9)]),
      as_bytes_mut([good EXCEPT !.reserved[6] = 16]),
      SubSeq(as_bytes_mut(good), 1, 67),
      SubSeq(as_bytes_mut([good EXCEPT !.len = 20]), 1, 30),
      << >> }

InitHandshake ==
    /\ hsPc = "New"
    /\ hsResult = Running
    /\ hsLocal \in [info_hash : InfoHashes, peer_id : PeerIds]
    /\ hsBuf = << >>
    /\ hsWritten = 0
    /\ hsGot = 0
    /\ hsReply \in PeerReplies(hsLocal.info_hash)
    /\ hsExposed = << >>
    /\ FramerIdle
    /\ DownloadIdle
    /\ ToolsIdle

\* sizes of the partial writes and reads the transport may do
HsChunks(remaining) == { n \in { 1, 19, remaining } : n >= 1 /\ n <= remaining }

\* let mut handshake = HandShake::new(..); handshake.as_bytes_mut()
hs_new ==
    /\ hsPc = "New"
    /\ hsBuf' = as_bytes_mut(HandShake_new(hsLocal.info_hash, hsLocal.peer_id))
    /\ hsPc' = "Write"
    /\ UNCHANGED <<hsResult, hsLocal, hsWritten, hsGot, hsReply, hsExposed,
                   framerVars, dlVars, toolVars>>

\* write_all: one partial write of n bytes; the loop ends when all are written
hs_write(n) ==
    /\ hsPc = "Write"
    /\ n \in HsChunks(Len(hsBuf) - hsWritten)
    /\ hsWritten' = hsWritten + n
    /\ hsPc' = IF hsWritten + n = Len(hsBuf) THEN "Read" ELSE "Write"
    /\ UNCHANGED <<hsResult, hsLocal, hsBuf, hsGot, hsReply, hsExposed,
                   framerVars, dlVars, toolVars>>

\* write_all fails: .context("writing handshake ..")? returns the error
hs_write_fail ==
    /\ hsPc = "Write"
    /\ hsPc' = "Failed"
    /\ hsResult' = Err("IoError")
    /\ UNCHANGED <<hsLocal, hsBuf, hsWritten, hsGot, hsReply, hsExposed,
                   framerVars, dlVars, toolVars>>

\* read_exact: one partial read of n bytes into the record, in place
hs_read(n) ==
    /\ hsPc = "Read"
    /\ n \in HsChunks(Len(hsBuf) - hsGot)
    /\ n <= Len(hsReply)
    /\ hsBuf' = [ i \in 1 .. Len(hsBuf) |->
                    IF i > hsGot /\ i <= hsGot + n THEN hsReply[i - hsGot]
                                                   ELSE hsBuf[i] ]
    /\ hsReply' = advance(hsReply, n)
    /\ hsGot' = hsGot + n
    /\ hsPc' = IF hsGot + n = Len(hsBuf) THEN "Validate" ELSE "Read"
    /\ UNCHANGED <<hsResult, hsLocal, hsWritten, hsExposed, framerVars, dlVars, toolVars>>

\* a read_exact that takes the end of the stream for the end of the read
AfterEof_lenient == [pc |-> "Validate", result |-> Running]

\* read_exact at end of stream: UnexpectedEof, returned through
\* .context("reading handshake ..")?
AfterEof == [pc |-> "Failed", result |-> Err("IoError")]

hs_read_eof ==
    /\ hsPc = "Read"
    /\ hsReply = << >>
    /\ hsGot < Len(hsBuf)
    /\ hsPc' = AfterEof.pc
    /\ hsResult' = AfterEof.result
    /\ UNCHANGED <<hsLocal, hsBuf, hsWritten, hsGot, hsReply, hsExposed,
                   framerVars, dlVars, toolVars>>

\* assert!(handshake.len == 19); assert!(&handshake.bittorrent == b"..");
\* println!(.., hex::encode(handshake.peer_id))
hs_validate ==
    /\ hsPc = "Validate"
    /\ IF hs_len(hsBuf) = 19 /\ hs_bittorrent(hsBuf) = BitTorrentProtocol
       THEN /\ hsPc' = "Completed"
            /\ hsResult' = Ok
            /\ hsExposed' = hs_peer_id(hsBuf)
       ELSE /\ hsPc' = "Failed"
            /\ hsResult' = Panic("ProtocolError")
            /\ hsExposed' = hsExposed
    /\ UNCHANGED <<hsLocal, hsBuf, hsWritten, hsGot, hsReply, framerVars, dlVars, toolVars>>

NextHandshake ==
    \/ hs_new
    \/ \E n \in 1 .. HandshakeSize : hs_write(n)
    \/ hs_write_fail
    \/ \E n \in 1 .. HandshakeSize : hs_read(n)
    \/ hs_read_eof
    \/ hs_validate

SpecHandshake == InitHandshake /\ [][NextHandshake]_vars

-----------------------------------------------------------------------------
(* The frame format, stated independently of decode *)

\* buf starts with a complete frame [u32 length][u8 tag][length-1 bytes payload]
StartsWithFrame(buf) ==
    /\ Len(buf) >= 5
    /\ from_be_bytes(SubSeq(buf, 1, 4)) \in 1 .. MAX
    /\ Len(buf) >= 4 + from_be_bytes(SubSeq(buf, 1, 4))
    /\ buf[5] \in MessageTag

FrameLen(buf) == 4 + from_be_bytes(SubSeq(buf, 1, 4))
FrameTag(buf) == buf[5]
FramePayload(buf) == SubSeq(buf, 6, FrameLen(buf))

\* buf is a sequence of complete frames laid back-to-back
RECURSIVE WellFramed(_)
WellFramed(buf) ==
    \/ buf = << >>
    \/ /\ StartsWithFrame(buf)
       /\ WellFramed(advance(buf, FrameLen(buf)))

RECURSIVE FrameMessages(_)
FrameMessages(buf) ==
    IF buf = << >> THEN << >>
    ELSE << [tag |-> FrameTag(buf), payload |-> FramePayload(buf)] >>
            \o FrameMessages(advance(buf, FrameLen(buf)))

TagPayload(ms) == [ i \in 1 .. Len(ms) |-> [tag |-> ms[i].tag, payload |-> ms[i].payload] ]

-----------------------------------------------------------------------------
(* C1: a valid frame (length L in 1..65536, tag in 0..8, L-1 payload bytes)
   fed to an empty buffer one byte at a time with decode called after each
   byte: every call made before the final byte returns None and leaves the
   buffer as it was; the call made after the final byte returns one message
   with the frame's tag and exactly its L-1 payload bytes. *)
C1_Incremental ==
    ( /\ ~viaEncode
      /\ bytewise
      /\ ~fresh
      /\ last.res # "Init"
      /\ last.off = 0
      /\ StartsWithFrame(wireLog)
      /\ Len(last.before) <= FrameLen(wireLog) )
    => IF Len(last.before) < FrameLen(wireLog)
       THEN last.res = "None" /\ last.after = last.before
       ELSE /\ last.res = "Some"
            /\ last.msg.tag = FrameTag(wireLog)
            /\ last.msg.payload = FramePayload(wireLog)
            /\ last.after = << >>

(* C2: when the buffer starts with a complete frame of length L followed by
   any bytes, decode consumes exactly 4+L bytes, returns the frame's tag and
   its L-1 payload bytes and leaves the rest at the front of the buffer; so
   a stream of back-to-back frames, once read and decoded to an empty
   buffer, has produced the frames' messages in order. *)
C2_ConsumesOneFrame ==
    /\ ( last.res # "Init" /\ StartsWithFrame(last.before) )
       => /\ last.res = "Some"
          /\ last.msg.tag = FrameTag(last.before)
          /\ last.msg.payload = FramePayload(last.before)
          /\ last.after = advance(last.before, FrameLen(last.before))
    /\ ( /\ ~viaEncode
         /\ WellFramed(wireLog)
         /\ wire = << >>
         /\ src = << >>
         /\ last.res # "Init" )
       => TagPayload(msgs) = FrameMessages(wireLog)

(* C3: for a message with payload length + 1 <= 65536, the bytes encode
   writes start with the big-endian u32 payload length + 1, and decode
   applied to exactly those bytes returns the message's tag and payload. *)
C3_EncodeDecodeRoundTrip ==
    ( /\ viaEncode
      /\ Len(sentItems) = 1
      /\ Len(sentItems[1].payload) + 1 <= MAX
      /\ last.res # "Init"
      /\ last.off = 0
      /\ last.before = wireLog )
    => /\ SubSeq(wireLog, 1, 4) = to_be_bytes(Len(sentItems[1].payload) + 1)
       /\ last.res = "Some"
       /\ last.msg.tag = sentItems[1].tag
       /\ last.msg.payload = sentItems[1].payload

-----------------------------------------------------------------------------
(* What the peer wrote, by the frame format *)

\* the peer's frames that carry a message (keep-alives carry none)
PeerMessages == SelectSeq(peerLog, LAMBDA f : f # KeepAlive)

SentInterested == \E i \in 1 .. Len(tx) : TxTag(tx[i]) = Interested

\* Piece messages the engine has received after the unchoke
PiecesReceived ==
    Cardinality({ i \in 3 .. Len(rxMsgs) : rxMsgs[i].tag = Piece })

(* C4: Interested is sent only after the first message received from the
   peer is a Bitfield, and a Request is sent only after, in addition, the
   next message received is an Unchoke with an empty payload. *)
C4_FixedOrder ==
    /\ SentInterested
       => /\ Len(rxMsgs) >= 1
          /\ FrameTag(PeerMessages[1]) = Bitfield
    /\ Requests # << >>
       => /\ Len(rxMsgs) >= 2
          /\ FrameTag(PeerMessages[1]) = Bitfield
          /\ FrameTag(PeerMessages[2]) = Unchoke
          /\ FramePayload(PeerMessages[2]) = << >>

(* C5: once the first message is not a Bitfield, the second is not an
   Unchoke, or a later one is not a Piece, the download has ended with the
   error value ProtocolError (not a panic), that message is the last one
   taken from the peer, nothing was sent after it and no piece is yielded. *)
Offending(i) ==
    \/ i = 1 /\ rxMsgs[i].tag # Bitfield
    \/ i = 2 /\ rxMsgs[i].tag # Unchoke
    \/ i >= 3 /\ rxMsgs[i].tag # Piece

C5_ProtocolErrorIsTyped ==
    \A i \in 1 .. Len(rxMsgs) :
        Offending(i)
        => /\ result = Err("ProtocolError")
           /\ i = Len(rxMsgs)
           /\ Len(tx) = i - 1
           /\ output = << >>

(* C6: with N = ceil(piece_size / 16384), the i-th Request (from 0) has
   begin = i * 16384 and length 16384, except the last, whose length is
   piece_size - begin; every length is in 1..16384; at most N Requests are
   sent, and exactly N once the request loop is over. *)
C6_BlockSizes ==
    LET N == div_ceil(piece_size, BLOCK_MAX) IN
    /\ Len(Requests) <= N
    /\ pc = "Verify" => Len(Requests) = N
    /\ \A i \in 1 .. Len(Requests) :
         LET r == TxRequest(Requests[i]) IN
         /\ r.begin = (i - 1) * BLOCK_MAX
         /\ r.length = IF i < N THEN BLOCK_MAX ELSE piece_size - r.begin
         /\ r.length \in 1 .. BLOCK_MAX

(* C7: the byte length computed for the requested piece is piece_length for
   every index but the last and total_length - piece_length*(num_pieces-1)
   for the last index, which is the full piece_length (not 0) when
   total_length is a multiple of piece_length. *)
C7_PieceByteLength ==
    pc \in { "SendRequest", "WaitPiece", "Verify" }
    => piece_size = IF torrent.piece = torrent.npieces - 1
                    THEN torrent.length
                           - torrent.piece_length * (torrent.npieces - 1)
                    ELSE torrent.piece_length

(* C8: when the assembled piece has the right length but its digest differs
   from the stored digest of the piece, the download has ended with the
   error value HashVerificationFailure, no piece is returned and nothing is
   written to the output path. *)
C8_HashMismatchRejected ==
    ( /\ pc = "Verify"
      /\ result.state # "Running"
      /\ Len(blocks) = piece_size
      /\ Sha1(blocks) # torrent.piece_hash )
    => /\ result = Err("HashVerificationFailure")
       /\ output = << >>

(* C9: every block appended to the assembly buffer comes from a Piece
   message whose index and begin equal those of the outstanding Request. *)
C9_OnlyMatchingPiece ==
    \A i \in 1 .. Len(appended) :
        /\ appended[i].index = appended[i].request.index
        /\ appended[i].begin = appended[i].request.begin

(* C10: at most one Request is outstanding at any time, and a Request is
   sent only when every earlier Request has had its Piece message received. *)
C10_NoPipelining ==
    /\ [](Len(Requests) - PiecesReceived \in { 0, 1 })
    /\ [][Len(Requests') > Len(Requests)
            => /\ Len(Requests') = Len(Requests) + 1
               /\ PiecesReceived = Len(Requests)
               /\ Len(appended) = Len(Requests)]_vars

\* the second Request has been sent after the first block was appended
C10_Witness ==
    /\ Len(Requests) = 2
    /\ Len(appended) >= 1
    /\ pc = "WaitPiece"

-----------------------------------------------------------------------------
(* Handshake claims *)

HsEnded == hsPc \in { "Completed", "Failed" }

HsProtocolOk(buf) ==
    /\ buf[1] = 19
    /\ SubSeq(buf, 2, 20) =
         << 66, 105, 116, 84, 111, 114, 114, 101, 110, 116, 32,
            112, 114, 111, 116, 111, 99, 111, 108 >>

(* C11: when the 68 bytes read back have a protocol_name_length other than
   19 or a protocol name other than "BitTorrent protocol", the handshake
   ends Failed with the error value ProtocolError, not with a panic. *)
C11_MismatchIsProtocolError ==
    ( /\ HsEnded
      /\ hsGot = 68
      /\ ~HsProtocolOk(hsBuf) )
    => /\ hsPc = "Failed"
       /\ hsResult = Err("ProtocolError")

(* C12: a handshake reaches Completed only when the info_hash in the
   peer's reply (bytes 28..47) equals the info_hash that was sent. *)
C12_InfoHashValidated ==
    hsPc = "Completed" => SubSeq(hsBuf, 29, 48) = hsLocal.info_hash

(* C17: the handshake ends in exactly one of Completed and Failed;
   Completed only after all 68 bytes were written and 68 bytes were read
   back and validated; when the transport closes or fails before 68 bytes
   are written or read, it ends Failed with the error value IoError; the
   peer_id is exposed only in Completed. *)
C17_CompletedOrFailed ==
    /\ hsPc = "Completed"
       => /\ hsWritten = 68
          /\ hsGot = 68
          /\ HsProtocolOk(hsBuf)
          /\ hsResult.state = "Ok"
    /\ hsPc = "Failed" => hsResult.state \in { "Err", "Panic" }
    /\ hsResult.state # "Running" => HsEnded
    /\ ( HsEnded /\ (hsWritten < 68 \/ hsGot < 68) )
       => /\ hsPc = "Failed"
          /\ hsResult = Err("IoError")
    /\ hsExposed # << >> => hsPc = "Completed"

\* the peer closed after 67 bytes of a well-formed reply
C17_Witness ==
    /\ hsPc = "Failed"
    /\ hsWritten = 68
    /\ hsGot = 67
    /\ hsResult = Err("IoError")
    /\ hsExposed = << >>

(* C18: the bytes of HandShake::new(info_hash, peer_id) are 68 bytes:
   byte 0 = 19, bytes 1..19 = "BitTorrent protocol", bytes 20..27 zero,
   bytes 28..47 = info_hash, bytes 48..67 = peer_id. *)
C18_HandshakeLayout ==
    hsPc = "Write"
    => /\ Len(hsBuf) = 68
       /\ HsProtocolOk(hsBuf)
       /\ \A i \in 21 .. 28 : hsBuf[i] = 0
       /\ SubSeq(hsBuf, 29, 48) = hsLocal.info_hash
       /\ SubSeq(hsBuf, 49, 68) = hsLocal.peer_id

\* the record built from an info_hash that is not all zero and the default peer id
C18_Witness ==
    /\ hsPc = "Write"
    /\ hsLocal.info_hash = Fill(20, 171)
    /\ hsLocal.peer_id = DefaultPeerId
    /\ Len(hsBuf) = 68

\* the declared length of the frame header a decode call was given
DeclaredLength(buf) == from_be_bytes(SubSeq(buf, 1, 4))

\* C13: a decode call whose buffer starts with a length prefix above MAX
\* (65536) returns an error, whatever else has or has not arrived, and
\* takes nothing out of the buffer.
C13_CeilingIsError ==
    (last.res # "Init" /\ Len(last.before) >= 4
        /\ DeclaredLength(last.before) > MAX)
    => (last.res = "Err" /\ last.after = last.before)

\* an oversized header arrived alone and the call on it was refused
C13_Witness ==
    /\ last.res = "Err"
    /\ Len(last.before) = 4
    /\ DeclaredLength(last.before) = MAX + 1

-----------------------------------------------------------------------------
(* Heartbeats: the same reads with and without the length-0 frames *)

MaxReads == 2         \* reads the transport delivers
MaxPerRead == 2       \* frames (heartbeats included) in one read

KaElements ==
    { KeepAlive, WireFrame(1, Unchoke, << >>), WireFrame(2, Piece, << 170 >>),
      WireFrame(3, Piece, << 170, 85 >>) }

KaReads == BoundedSeq(KaElements, MaxPerRead) \ { << >> }

\* the frames of a read that are not heartbeats, in order
RealFrames(read) == SelectSeq(read, LAMBDA f : f # KeepAlive)

\* while let Some(item) = framed.next(): decode until the buffer gives no
\* further message
RECURSIVE Drain(_)
Drain(buf) ==
    LET r == decode(buf) IN
    IF r.res = "Some"
    THEN LET d == Drain(r.src) IN
         [msgs |-> << r.msg >> \o d.msgs, end |-> d.end, src |-> d.src]
    ELSE [msgs |-> << >>, end |-> r.res, src |-> r.src]

InitKeepAlive ==
    /\ \E plan \in BoundedSeq(KaReads, MaxReads) :
         ka = [NoFeed EXCEPT !.all = plan, !.plan = plan]
    /\ hashes = NoHashes
    /\ dec = NoDecode
    /\ FramerIdle
    /\ DownloadIdle
    /\ HandshakeIdle

\* one read arrives; the stream is drained. The comparison run gets the
\* same read without its heartbeats.
ka_read ==
    /\ ka.plan # << >>
    /\ ka.end # "Panic" /\ ka.refEnd # "Panic"
    /\ LET d == Drain(ka.src \o Flatten(Head(ka.plan)))
           e == Drain(ka.refSrc \o Flatten(RealFrames(Head(ka.plan))))
       IN ka' = [ka EXCEPT !.plan = Tail(ka.plan),
                           !.src = d.src,
                           !.msgs = ka.msgs \o d.msgs,
                           !.end = d.end,
                           !.refSrc = e.src,
                           !.refMsgs = ka.refMsgs \o e.msgs,
                           !.refEnd = e.end]
    /\ UNCHANGED <<hashes, dec, framerVars, dlVars, hsVars>>

NextKeepAlive == ka_read

SpecKeepAlive == InitKeepAlive /\ [][NextKeepAlive]_vars

\* the heartbeats of the stream all stand before or between real frames
HeartbeatsInside(reads) ==
    /\ \E i \in 1 .. Len(Flatten(reads)) : Flatten(reads)[i] = KeepAlive
    /\ Flatten(reads)[Len(Flatten(reads))] # KeepAlive

\* C14: with heartbeats only before and between real frames, the messages
\* decoded are those decoded from the same reads without the heartbeats
\* (and the decoder ends the same way); a heartbeat gives no message and
\* leaves none of its bytes in the buffer.
C14_HeartbeatsTransparent ==
    (ka.end # "Init" /\ HeartbeatsInside(ka.all))
    => (/\ ka.msgs = ka.refMsgs
        /\ ka.end = ka.refEnd
        /\ ka.src = ka.refSrc)

-----------------------------------------------------------------------------
(* encode at the frame ceiling *)

MaxSmallPayload == 20     \* short payloads tried, next to those at the ceiling

\* payload bytes that differ along the payload
Ramp(n) == [ i \in 1 .. n |-> i % 251 ]

EncodePayloadLens == (0 .. MaxSmallPayload) \cup { MAX - 2, MAX - 1, MAX, MAX + 1 }

EncodeMessages ==
    { [length |-> n + 1, tag |-> t, payload |-> Ramp(n)] :
        n \in EncodePayloadLens, t \in CodecTags }

\* one message is handed to encode; dst is empty or holds earlier bytes
InitEncode ==
    /\ viaEncode = TRUE
    /\ pending \in { << m >> : m \in EncodeMessages }
    /\ wire \in { << >>, << 9, 9 >> }
    /\ wireLog = wire
    /\ sentItems = << >>
    /\ src = << >>
    /\ last = NoCall
    /\ msgs = << >>
    /\ fresh = FALSE
    /\ bytewise = TRUE
    /\ encLast = NoEncode
    /\ DownloadIdle
    /\ HandshakeIdle
    /\ ToolsIdle

NextEncode == encode_call

SpecEncode == InitEncode /\ [][NextEncode]_vars

\* C15: encode refuses a message whose tag byte and payload make more than
\* MAX (65536) bytes and then leaves dst as it was; any other message adds
\* four prefix bytes, the tag byte and the whole payload to dst.
C15_EncodeCeiling ==
    encLast.res # "Init"
    => LET len == Len(encLast.item.payload) + 1
           n == Len(encLast.before)
       IN IF len > MAX
          THEN encLast.res = "Err" /\ encLast.after = encLast.before
          ELSE /\ encLast.res = "Ok"
               /\ Len(encLast.after) = n + 4 + len
               /\ SubSeq(encLast.after, 1, n) = encLast.before
               /\ encLast.after[n + 5] = encLast.item.tag
               /\ SubSeq(encLast.after, n + 6, n + 4 + len) = encLast.item.payload

\* a message one byte over the ceiling was refused, behind earlier bytes
C15_Witness ==
    /\ encLast.res = "Err"
    /\ Len(encLast.item.payload) + 1 = MAX + 1
    /\ encLast.before # << >>

\* a message exactly at the ceiling went out
C15_WitnessAtCeiling ==
    /\ encLast.res = "Ok"
    /\ Len(encLast.item.payload) + 1 = MAX

-----------------------------------------------------------------------------
(* C16: once all nblocks answers are in, an assembly buffer whose length is
   not the piece's byte length ends the download with the error value
   SizeMismatch before any digest is compared, and nothing is handed out;
   a buffer of the right length goes on to the digest comparison. *)
C16_SizeMismatchIsError ==
    (pc = "Verify" /\ result.state # "Running")
    => IF Len(blocks) # piece_size
       THEN result = Err("SizeMismatch") /\ output = << >>
       ELSE result.kind # "SizeMismatch"

-----------------------------------------------------------------------------
(* Hashes: the pieces byte string and the digest list *)

MaxPiecesLen == 61        \* longest pieces string tried

DigestSize == 20

PiecesInputs ==
    { Ramp(n) : n \in 0 .. MaxPiecesLen }
        \cup { [ i \in 1 .. n |-> (7 * i) % 256 ] : n \in 0 .. MaxPiecesLen }

\* slice::chunks_exact: the full chunks of n bytes, in order; a remainder
\* shorter than n is left out
chunks_exact(value, n) ==
    [ k \in 1 .. (Len(value) \div n) |-> SubSeq(value, (k - 1) * n + 1, k * n) ]

\* a visit_bytes without the length test: the odd bytes at the end are dropped
visit_bytes_lenient(value) ==
    [res |-> "Ok", hashes |-> chunks_exact(value, DigestSize)]

(* HashesVisitor::visit_bytes *)
visit_bytes(value) ==
    IF Len(value) % DigestSize # 0
    THEN [res |-> "Err", hashes |-> << >>]
    ELSE [res |-> "Ok", hashes |-> chunks_exact(value, DigestSize)]

\* [[u8; 20]]::concat
concat(list) == Flatten(list)

(* Hashes::serialize: the bytes handed to serialize_bytes *)
serialize(self) == concat(self)

InitHashes ==
    /\ \E input \in PiecesInputs :
         hashes = [NoHashes EXCEPT !.pc = "Deserialize", !.input = input]
    /\ ka = NoFeed
    /\ dec = NoDecode
    /\ FramerIdle
    /\ DownloadIdle
    /\ HandshakeIdle

hashes_deserialize ==
    /\ hashes.pc = "Deserialize"
    /\ LET r == visit_bytes(hashes.input) IN
       hashes' = [hashes EXCEPT !.pc = IF r.res = "Ok" THEN "Serialize" ELSE "Failed",
                                !.res = r.res,
                                !.decoded = r.hashes]
    /\ UNCHANGED <<ka, dec, framerVars, dlVars, hsVars>>

hashes_serialize ==
    /\ hashes.pc = "Serialize"
    /\ hashes' = [hashes EXCEPT !.pc = "Done", !.output = serialize(hashes.decoded)]
    /\ UNCHANGED <<ka, dec, framerVars, dlVars, hsVars>>

NextHashes ==
    \/ hashes_deserialize
    \/ hashes_serialize

SpecHashes == InitHashes /\ [][NextHashes]_vars

\* C19: reading a pieces string succeeds exactly when its length is a
\* multiple of 20 and otherwise is an error; on success there are length/20
\* digests and digest k is bytes 20k .. 20k+19 of the string; serializing
\* the digests gives the string back.
C19_HashesRoundTrip ==
    hashes.res # "Init"
    => /\ (hashes.res = "Ok") <=> (Len(hashes.input) % 20 = 0)
       /\ hashes.res # "Ok" => (hashes.res = "Err" /\ hashes.pc = "Failed")
       /\ hashes.res = "Ok" =>
            /\ Len(hashes.decoded) * 20 = Len(hashes.input)
            /\ \A k \in 0 .. Len(hashes.decoded) - 1 :
                 hashes.decoded[k + 1] = [ j \in 1 .. 20 |-> hashes.input[20 * k + j] ]
       /\ hashes.pc = "Done" => hashes.output = hashes.input

\* a 40-byte string was read as its two halves and written back
C19_Witness ==
    /\ hashes.pc = "Done"
    /\ Len(hashes.input) = 40
    /\ hashes.decoded = << SubSeq(hashes.input, 1, 20), SubSeq(hashes.input, 21, 40) >>
    /\ hashes.decoded[1] # hashes.decoded[2]
    /\ hashes.output = hashes.input

-----------------------------------------------------------------------------
(* A peer that follows the protocol *)

HonestShapes == { <<17, 9>>, <<18, 9>>, <<40, 16>>, <<49153, 32768>> }
FileSeeds == { 3, 7 }

\* byte off of the file the peer serves
FileByte(seed, off) == (seed * (off + 1)) % 251

\* the true bytes of piece p: piece_length of them, fewer only for a last
\* piece that the file does not fill
TruePieceSize(length, piece_length, p) ==
    IF length - p * piece_length < piece_length
    THEN length - p * piece_length ELSE piece_length

TruePiece(seed, length, piece_length, p) ==
    [ i \in 1 .. TruePieceSize(length, piece_length, p) |->
        FileByte(seed, p * piece_length + i - 1) ]

\* the torrent's digest of each piece is the digest of the file's bytes
HonestTorrents ==
    { [length |-> sh[1], piece_length |-> sh[2],
       npieces |-> div_ceil(sh[1], sh[2]),
       piece |-> p,
       piece_hash |-> Sha1(TruePiece(seed, sh[1], sh[2], p)),
       seed |-> seed] :
        sh \in HonestShapes, p \in 0 .. 2, seed \in FileSeeds }

InitHonest ==
    /\ torrent \in { t \in HonestTorrents : t.piece < t.npieces }
    /\ pc = "WaitBitfield"
    /\ result = [state |-> "Running", kind |-> "None"]
    /\ rx = << >>
    /\ closed = FALSE
    /\ peerLog = << >>
    /\ rxMsgs = << >>
    /\ tx = << >>
    /\ piece_size = 0
    /\ nblocks = 0
    /\ block_i = 0
    /\ blocks = << >>
    /\ appended = << >>
    /\ output = << >>
    /\ FramerIdle
    /\ HandshakeIdle
    /\ ToolsIdle

\* frames the peer has found in what the engine wrote. The peer is taken to
\* find tag and fields although the engine's length prefix is little-endian.
SeenInterested == \E i \in 1 .. Len(tx) : TxTag(tx[i]) = Interested

PiecesSent == SelectSeq(peerLog, LAMBDA f : f # KeepAlive /\ f[5] = Piece)

honest_write(f) ==
    /\ result.state = "Running"
    /\ rx' = rx \o f
    /\ peerLog' = Append(peerLog, f)
    /\ UNCHANGED <<pc, result, torrent, closed, rxMsgs, tx, piece_size, nblocks,
                   block_i, blocks, appended, output, framerVars, auxVars>>

\* the bitfield is the peer's first message
honest_bitfield ==
    /\ peerLog = << >>
    /\ honest_write(WireFrame(2, Bitfield, << 255 >>))

\* Unchoke answers Interested
honest_unchoke ==
    /\ Len(peerLog) = 1
    /\ SeenInterested
    /\ honest_write(WireFrame(1, Unchoke, << >>))

\* every Request{index, begin, length} is answered, in order, by a Piece
\* with the same index and begin and exactly length bytes of the file
honest_piece ==
    /\ Len(PiecesSent) < Len(Requests)
    /\ LET req == TxRequest(Requests[Len(PiecesSent) + 1]) IN
       honest_write(PieceFrame(req.index, req.begin,
           [ i \in 1 .. req.length |->
               FileByte(torrent.seed,
                        req.index * torrent.piece_length + req.begin + i - 1) ]))

NextHonest ==
    \/ honest_bitfield
    \/ honest_unchoke
    \/ honest_piece
    \/ recv_bitfield
    \/ send_interested
    \/ recv_unchoke
    \/ compute_sizes
    \/ send_request
    \/ recv_piece
    \/ verify

SpecHonest == InitHonest /\ [][NextHonest]_vars

\* C20: against a peer that follows the protocol, a download of a valid
\* piece index ends only in success: the assembly buffer then holds the
\* true bytes of the piece, size and digest checks having passed.
C20_HonestPeerSucceeds ==
    result.state # "Running"
    => /\ result.state = "Ok"
       /\ blocks = TruePiece(torrent.seed, torrent.length,
                             torrent.piece_length, torrent.piece)

-----------------------------------------------------------------------------
\* buf starts with a complete frame whose tag byte names no message
UnknownTagFrame(buf) ==
    /\ Len(buf) >= 5
    /\ DeclaredLength(buf) \in 1 .. MAX
    /\ Len(buf) >= 4 + DeclaredLength(buf)
    /\ buf[5] \notin 0 .. 8

\* C21: every decode call returns: Incomplete, one message or an error
\* value, never a panic; on a complete frame whose tag is outside 0..8 it
\* returns an error.
C21_DecodeNeverPanics ==
    last.res # "Init"
    => /\ last.res \in { "None", "Some", "Err" }
       /\ UnknownTagFrame(last.before) => last.res = "Err"

-----------------------------------------------------------------------------
(* C22: when the Request for block i has been sent, its begin is i * 16384
   and the assembly buffer holds exactly that many bytes; every block
   received was put at the buffer offset equal to the begin of its Request. *)
C22_BlocksAtRequestedOffsets ==
    /\ (pc = "WaitPiece" /\ Requests # << >>)
       => /\ LastRequest.begin = (Len(Requests) - 1) * 16384
          /\ Len(blocks) = LastRequest.begin
    /\ \A i \in 1 .. Len(appended) :
          appended[i].offset = appended[i].request.begin

-----------------------------------------------------------------------------
(* One decode call, one activation of its body per step *)

MaxLeading == 4       \* heartbeats in front of the rest of the buffer

\* what follows the leading heartbeats
DecodeTails ==
    { << >>, << 0 >>, << 0, 0, 0 >>, << 0, 0, 0, 2 >>, << 0, 0, 0, 2, 7 >>,
      WireFrame(1, Unchoke, << >>),
      WireFrame(2, Piece, << 170 >>),
      WireFrame(2, Piece, << 170 >>) \o << 0, 0 >>,
      WireFrame(1, Unchoke, << >>) \o KeepAlive,
      to_be_bytes(MAX + 1),
      WireFrame(1, 9, << >>) }

DecodeBuffers ==
    { Flatten([ i \in 1 .. k |-> KeepAlive ]) \o t :
        k \in 0 .. MaxLeading, t \in DecodeTails }

InitDecodeSteps ==
    /\ \E buf \in DecodeBuffers :
         dec = [buf |-> buf, src |-> buf, steps |-> 0, res |-> "Running"]
    /\ ka = NoFeed
    /\ hashes = NoHashes
    /\ FramerIdle
    /\ DownloadIdle
    /\ HandshakeIdle

\* one activation of decode: on a heartbeat it advances four bytes and calls
\* itself on the rest (return self.decode(src)); otherwise it returns
decode_step ==
    /\ dec.res = "Running"
    /\ IF Len(dec.src) >= 4 /\ from_be_bytes(SubSeq(dec.src, 1, 4)) = 0
       THEN dec' = [dec EXCEPT !.src = advance(dec.src, 4), !.steps = @ + 1]
       ELSE LET r == decode(dec.src) IN
            dec' = [dec EXCEPT !.src = r.src, !.steps = @ + 1, !.res = r.res]
    /\ UNCHANGED <<ka, hashes, framerVars, dlVars, hsVars>>

NextDecodeSteps == decode_step

SpecDecodeSteps == InitDecodeSteps /\ [][NextDecodeSteps]_vars

\* the activations, taken one by one, end as the call as a whole does
DecodeStepsAgree ==
    dec.res \notin { "Init", "Running" }
    => (dec.res = decode(dec.buf).res /\ dec.src = decode(dec.buf).src)

\* a call on n bytes ends within n/4 + 1 activations, however it ends
DecodeStepBound ==
    /\ dec.steps <= Len(dec.buf) \div 4 + 1
    /\ dec.res = "Running" => dec.steps <= Len(dec.buf) \div 4

\* C23: a decode call on a buffer of n bytes, leading heartbeats included,
\* is resolved within n/4 + 1 activations, four bytes consumed per
\* heartbeat, to Incomplete, one message or an error.
C23_DecodeResolves ==
    /\ dec.steps <= Len(dec.buf) \div 4 + 1
    /\ dec.res = "Running" => Len(dec.src) = Len(dec.buf) - 4 * dec.steps
    /\ dec.res \notin { "Init", "Running" } => dec.res \in { "None", "Some", "Err" }

=============================================================================
